---------------------------- MODULE Spec2Model ----------------------------
(***************************************************************************)
(* Trip expense tracker (src/app.py): the net balance calculator           *)
(* (compute_net), the greedy settlement reducer (build_settlement_matrix)  *)
(* and the manual FX conversion of the "Converted" tab.                    *)
(*                                                                         *)
(* Amounts are exact integers.  In the settlement reducer one unit is the  *)
(* tolerance of the code, 1e-9 (Epsilon == 1): an amount of 1 is float     *)
(* noise, an amount of 2 or more is a real transfer.  The loop compares    *)
(* amounts only with each other, with 0 and with the tolerance.            *)
(***************************************************************************)
EXTENDS Integers, Sequences, FiniteSets

VARIABLES
    pc,          \* position of the running call / script
    all_names,   \* the roster handed to compute_net / build_settlement_matrix
    net,         \* the net map (compute_net's result, the reducer's input)
    temp,        \* build_settlement_matrix: remaining balance per name
    settle_df,   \* build_settlement_matrix: the matrix, settle_df[d][c]
    creditors,   \* build_settlement_matrix: names with net > 0, roster order
    debtors,     \* build_settlement_matrix: names with net < 0, roster order
    ci,          \* creditor index (0-based, as in the code)
    di,          \* debtor index (0-based, as in the code)
    iters,       \* number of iterations of the while loop so far
    visited,     \* the (debtor, creditor) pairs the loop has paired, in order
    acc,         \* the matrix as the spec's step 4 builds it (+= give)
    stalled,     \* some iteration so far advanced neither ci nor di
    records,     \* the rows of the Expenses sheet handed to compute_net
    prev_net,    \* compute_net's result before the last row was added
    fx_base,     \* st.session_state.fx_base
    fx_rates,    \* st.session_state.fx_rates
    df_all,      \* the ledger the Converted tab converts
    df_conv,     \* the converted ledger, rows without rate dropped
    raised       \* an exception was raised while converting

settleVars == <<temp, settle_df, creditors, debtors, ci, di, iters, visited,
                acc, stalled>>

netVars == <<records, prev_net>>

fxVars == <<fx_base, fx_rates, df_all, df_conv, raised>>

vars == <<pc, all_names, net, settleVars, netVars, fxVars>>

---------------------------------------------------------------------------
(* Bounds of the model *)

MaxRoster == 4

MaxNet == 2

MaxNames == 2

MaxRecords == 2

MaxFxRecords == 2

MaxRate == 2

(* Program constants *)

\* None (a rate that was never set, lines 46 and 255); rates are >= 0
None == -1

\* line 38
currency_options == <<"USD", "EUR", "TWD">>

\* 1e-9 of lines 142, 146, 147, in the unit of the reducer's amounts
Epsilon == 1

---------------------------------------------------------------------------
(* Helpers *)

Max(a, b) == IF a >= b THEN a ELSE b

Min(a, b) == IF a <= b THEN a ELSE b

Abs(a) == IF a < 0 THEN -a ELSE a

Range(s) == {s[i] : i \in 1..Len(s)}

RECURSIVE SumSeq(_)
SumSeq(s) == IF s = <<>> THEN 0 ELSE Head(s) + SumSeq(Tail(s))

AllNames == <<"A", "B", "C", "D", "E", "F">>

Reverse(s) == [i \in 1..Len(s) |-> s[Len(s) + 1 - i]]

\* rosters: unique names (line 55 refuses a name already present)
Rosters == {SubSeq(AllNames, 1, n) : n \in 0..MaxRoster}

\* net values: around the tolerance, and a larger amount on either side
\* that leaves a remainder to carry to the next creditor or debtor
NetVals == ((-MaxNet)..MaxNet) \cup {-2 * MaxNet, 2 * MaxNet}

\* Scenario D, roster [A, B, C]
ScenarioD == [n \in {"A", "B", "C"} |->
                 IF n = "A" THEN 50 ELSE IF n = "B" THEN -20 ELSE -30]

\* Scenario A, roster [A, B, C]
ScenarioA == [n \in {"A", "B", "C"} |-> IF n = "A" THEN 60 ELSE -30]

ScenarioNets == {ScenarioD, ScenarioA}

---------------------------------------------------------------------------
(* build_settlement_matrix, lines 131-148 *)

\* line 135
Creditors(names, t) == SelectSeq(names, LAMBDA n : t[n] > 0)

\* mutant: the debtors walked from the end of the roster
DebtorsReversed(names, t) == Reverse(SelectSeq(names, LAMBDA n : t[n] < 0))

\* line 136
Debtors(names, t) == SelectSeq(names, LAMBDA n : t[n] < 0)

\* line 133
ZeroMatrix(names) == [r \in Range(names) |-> [c \in Range(names) |-> 0]]

\* mutant: max for min
GiveMax(t, c, d) == IF t[c] >= -t[d] THEN t[c] ELSE -t[d]

\* line 141
Give(t, c, d) == Min(t[c], -t[d])

\* line 142
Recorded(give) == give > Epsilon

\* mutant: the cell written at [creditor][debtor]
SetCellTransposed(m, d, c, give) == [m EXCEPT ![c][d] = give]

\* mutant: the transfer written in both directions
SetCellSymmetric(m, d, c, give) == [[m EXCEPT ![d][c] = give] EXCEPT ![c][d] = give]

\* line 143
SetCell(m, d, c, give) == [m EXCEPT ![d][c] = give]

\* mutant: the debtor's remaining balance is not updated
PayCreditorOnly(t, c, d, give) == [t EXCEPT ![c] = @ - give]

\* lines 144-145
Pay(t, c, d, give) == [[t EXCEPT ![c] = @ - give] EXCEPT ![d] = @ + give]

\* mutant: < for <=
AdvanceCiStrict(t, c, i) == IF t[c] < Epsilon THEN i + 1 ELSE i

\* line 146
AdvanceCi(t, c, i) == IF t[c] <= Epsilon THEN i + 1 ELSE i

\* line 147
AdvanceDi(t, d, i) == IF t[d] >= -Epsilon THEN i + 1 ELSE i

\* the specification's step 4: matrix[debtor][creditor] += give
AddCell(m, d, c, give) == [m EXCEPT ![d][c] = @ + give]

SettleIdle ==
    /\ temp = <<>>
    /\ settle_df = <<>>
    /\ creditors = <<>>
    /\ debtors = <<>>
    /\ ci = 0
    /\ di = 0
    /\ iters = 0
    /\ visited = <<>>
    /\ acc = <<>>
    /\ stalled = FALSE

NetIdle ==
    /\ records = <<>>
    /\ prev_net = <<>>

FxIdle ==
    /\ fx_base = currency_options[1]
    /\ fx_rates = [c \in Range(currency_options) |->
                       IF c = currency_options[1] THEN 1 ELSE None]
    /\ df_all = <<>>
    /\ df_conv = <<>>
    /\ raised = FALSE

InitSettle ==
    /\ pc = "call"
    /\ all_names \in Rosters
    /\ \/ net \in [Range(all_names) -> NetVals]
       \/ /\ all_names = <<"A", "B", "C">>
          /\ net \in ScenarioNets
    /\ SettleIdle
    /\ NetIdle
    /\ FxIdle

\* lines 133-137
Partition ==
    /\ pc = "call"
    /\ settle_df' = ZeroMatrix(all_names)
    /\ acc' = ZeroMatrix(all_names)
    /\ temp' = net
    /\ creditors' = Creditors(all_names, net)
    /\ debtors' = Debtors(all_names, net)
    /\ ci' = 0
    /\ di' = 0
    /\ pc' = "loop"
    /\ UNCHANGED <<all_names, net, iters, visited, stalled, netVars, fxVars>>

\* one iteration of the while loop, lines 138-147
LoopStep ==
    /\ pc = "loop"
    /\ ci < Len(creditors)
    /\ di < Len(debtors)
    /\ LET c == creditors[ci + 1]
           d == debtors[di + 1]
           give == Give(temp, c, d)
           t2 == IF Recorded(give) THEN Pay(temp, c, d, give) ELSE temp
       IN  /\ settle_df' = IF Recorded(give)
                           THEN SetCell(settle_df, d, c, give)
                           ELSE settle_df
           /\ acc' = IF Recorded(give) THEN AddCell(acc, d, c, give) ELSE acc
           /\ temp' = t2
           /\ ci' = AdvanceCi(t2, c, ci)
           /\ di' = AdvanceDi(t2, d, di)
           /\ stalled' = (stalled \/ (AdvanceCi(t2, c, ci) = ci
                                        /\ AdvanceDi(t2, d, di) = di))
           /\ visited' = Append(visited, <<d, c>>)
    /\ iters' = iters + 1
    /\ UNCHANGED <<pc, all_names, net, creditors, debtors, netVars, fxVars>>

\* the loop condition fails, line 138; return settle_df, line 148
Return ==
    /\ pc = "loop"
    /\ ~(ci < Len(creditors) /\ di < Len(debtors))
    /\ pc' = "done"
    /\ UNCHANGED <<all_names, net, settleVars, netVars, fxVars>>

NextSettle == Partition \/ LoopStep \/ Return

SpecSettle == InitSettle /\ [][NextSettle]_vars

---------------------------------------------------------------------------
(* _split_parts and compute_net, lines 101-129 *)

(* A string is a sequence of one-character strings and a participant name is *)
(* one character, so the name n is the string <<n>>.  Amounts are whole      *)
(* multiples of Scale, which every token count of the model divides, so the  *)
(* division of line 116 is exact.                                            *)

RECURSIVE Fact(_)
Fact(n) == IF n <= 1 THEN 1 ELSE n * Fact(n - 1)

Scale == Fact(Max(3, MaxNames))

\* the amount entered: 90 (Scenario A) when Scale = 6
Amounts == {15 * Scale}

\* a name that is on no roster
Outsider == "X"

NetRosters == {SubSeq(AllNames, 1, n) : n \in 0..MaxNames}

RECURSIVE Split(_)
\* str.split(","), line 102
Split(s) ==
    IF \E i \in 1..Len(s) : s[i] = ","
    THEN LET i == CHOOSE k \in 1..Len(s) :
                      s[k] = "," /\ \A j \in 1..(k - 1) : s[j] # ","
         IN  <<SubSeq(s, 1, i - 1)>> \o Split(SubSeq(s, i + 1, Len(s)))
    ELSE <<s>>

RECURSIVE Strip(_)
\* str.strip(), line 102
Strip(x) ==
    IF x # <<>> /\ Head(x) = " " THEN Strip(Tail(x))
    ELSE IF x # <<>> /\ x[Len(x)] = " " THEN Strip(SubSeq(x, 1, Len(x) - 1))
    ELSE x

\* lines 101-102: [x.strip() for x in str(cell).split(",") if x and x.strip()]
_split_parts(cell) ==
    LET kept == SelectSeq(Split(cell), LAMBDA x : x # <<>> /\ Strip(x) # <<>>)
    IN  [i \in 1..Len(kept) |-> Strip(kept[i])]

RECURSIVE Join(_)
\* ", ".join(participants), line 79
Join(ns) ==
    IF ns = <<>> THEN <<>>
    ELSE IF Len(ns) = 1 THEN <<ns[1]>>
    ELSE <<ns[1], ",", " ">> \o Join(Tail(ns))

\* n in _split_parts(s), line 124
InParts(n, cell) == <<n>> \in Range(_split_parts(cell))

\* line 110
Paid(df, n) ==
    SumSeq([i \in 1..Len(df) |-> IF df[i].Payer = n THEN df[i].Amount ELSE 0])

\* lines 113-116
Share(row) ==
    LET parts == _split_parts(row.Participants)
        k == IF Len(parts) = 0 THEN 1 ELSE Len(parts)
    IN  row.Amount \div k

\* lines 124-125: the share of a row is summed once for a name in its list
Charged(row, n) == IF InParts(n, row.Participants) THEN Share(row) ELSE 0

\* mutant: every row is charged to every name of the roster
OwedEveryRow(df, n) == SumSeq([i \in 1..Len(df) |-> Share(df[i])])

\* lines 122-125
Owed(df, n) == SumSeq([i \in 1..Len(df) |-> Charged(df[i], n)])

\* lines 104-129
compute_net(df, names) ==
    IF df = <<>> \/ names = <<>>
    THEN [n \in Range(names) |-> 0]
    ELSE [n \in Range(names) |-> Paid(df, n) - Owed(df, n)]

\* the sub-lists of the roster, roster order kept: what st.multiselect returns
Selections(names) ==
    {SelectSeq(names, LAMBDA n : n \in S) : S \in SUBSET Range(names)}

\* cells written by the Add Expense form, line 79
JoinedCells(names) == {Join(sel) : sel \in Selections(names)}

\* cells typed into the sheet by hand: a repeated name ("A,A,B"), a blank
\* entry ("A,  ,B", Scenario C), a name that is not on the roster
EditedCells(names) ==
    {<<Outsider>>}
        \cup (IF Len(names) >= 1
              THEN {<<names[1], ",", names[1]>>}
              ELSE {})
        \cup (IF Len(names) >= 2
              THEN {<<names[1], ",", names[1], ",", names[2]>>,
                    <<names[1], ",", " ", " ", ",", names[2]>>}
              ELSE {})

InitNet ==
    /\ pc = "call"
    /\ all_names \in NetRosters
    /\ net = <<>>
    /\ records = <<>>
    /\ prev_net = <<>>
    /\ SettleIdle
    /\ FxIdle

\* net = compute_net(df_like, all_names), line 155
ComputeNet ==
    /\ pc = "call"
    /\ net' = compute_net(records, all_names)
    /\ pc' = "done"
    /\ UNCHANGED <<all_names, records, prev_net, settleVars, fxVars>>

\* the Add Expense form, lines 63-82; the script then reads the sheet again
AddExpense ==
    /\ pc = "done"
    /\ Len(records) < MaxRecords
    /\ all_names # <<>>
    /\ \E amt \in Amounts, payer \in Range(all_names),
          participants \in Selections(all_names) :
           records' = Append(records, [Amount |-> amt, Payer |-> payer,
                                       Participants |-> Join(participants)])
    /\ prev_net' = net
    /\ pc' = "call"
    /\ UNCHANGED <<all_names, net, settleVars, fxVars>>

\* a row typed into the Expenses sheet, read by sheet.get_all_records(),
\* line 85
SheetRow ==
    /\ pc = "done"
    /\ Len(records) < MaxRecords
    /\ \E amt \in Amounts, payer \in Range(all_names) \cup {Outsider},
          cell \in JoinedCells(all_names) \cup EditedCells(all_names) :
           records' = Append(records, [Amount |-> amt, Payer |-> payer,
                                       Participants |-> cell])
    /\ prev_net' = net
    /\ pc' = "call"
    /\ UNCHANGED <<all_names, net, settleVars, fxVars>>

NextNet == ComputeNet \/ AddExpense \/ SheetRow

SpecNet == InitNet /\ [][NextNet]_vars

---------------------------------------------------------------------------
(* The Converted tab: FX settings and conversion, lines 220-258 *)

\* a currency tag the sheet may hold that is not one of currency_options
OtherCurrency == "GBP"

\* the amounts of the rows converted (0: a row whose amount is zero)
FxAmounts == {0, 3}

\* the rates the Save FX form can submit: number_input(min_value=0.0)
RateVals == 0..MaxRate

FxRows == [Currency : Range(currency_options) \cup {OtherCurrency},
           Amount : FxAmounts]

RECURSIVE SeqsUpTo(_, _)
SeqsUpTo(S, n) ==
    IF n = 0 THEN {<<>>}
    ELSE LET shorter == SeqsUpTo(S, n - 1)
         IN  shorter \cup {Append(q, x) : q \in shorter, x \in S}

\* dict.get(c): None for a missing key, lines 227 and 255
Get(rates, c) == IF c \in DOMAIN rates THEN rates[c] ELSE None

\* mutant: only a zero rate is refused, None reaches float(r)
UsableNonZero(r) == r # 0

\* line 256: r not in (None, 0)
Usable(r) == r \notin {None, 0}

\* _to_base, lines 254-256: the product, NaN, or the TypeError of float(None)
to_base(row, rates) ==
    LET r == Get(rates, row.Currency)
    IN  IF Usable(r)
        THEN IF r = None
             THEN [nan |-> FALSE, val |-> 0, err |-> TRUE]
             ELSE [nan |-> FALSE, val |-> row.Amount * r, err |-> FALSE]
        ELSE [nan |-> TRUE, val |-> 0, err |-> FALSE]

\* lines 253-258: apply _to_base, then dropna; a kept row keeps its index
Convert(df, rates) ==
    LET idx == SelectSeq([i \in 1..Len(df) |-> i],
                         LAMBDA i : ~to_base(df[i], rates).nan)
    IN  [k \in 1..Len(idx) |->
            [Row |-> idx[k],
             Currency |-> df[idx[k]].Currency,
             Amount |-> to_base(df[idx[k]], rates).val]]

\* an exception leaves the conversion
Raises(df, rates) == \E i \in 1..Len(df) : to_base(df[i], rates).err

\* lines 43-46, then the first run of the script over the ledger
InitFx ==
    /\ pc = "converted"
    /\ all_names = <<"A">>
    /\ net = <<>>
    /\ fx_base = currency_options[1]
    /\ fx_rates = [c \in Range(currency_options) |->
                       IF c = currency_options[1] THEN 1 ELSE None]
    /\ df_all \in SeqsUpTo(FxRows, MaxFxRecords)
    /\ df_conv = Convert(df_all, fx_rates)
    /\ raised = Raises(df_all, fx_rates)
    /\ SettleIdle
    /\ NetIdle

\* the Base currency selector, lines 222-227, and the rest of the script run
ChangeBase ==
    /\ ~raised
    /\ \E b \in Range(currency_options) :
           /\ b # fx_base
           /\ fx_base' = b
           /\ fx_rates' = [c \in Range(currency_options) |->
                               IF c = b THEN 1 ELSE Get(fx_rates, c)]
    /\ df_conv' = Convert(df_all, fx_rates')
    /\ raised' = Raises(df_all, fx_rates')
    /\ UNCHANGED <<pc, all_names, net, df_all, settleVars, netVars>>

\* the Save FX form, lines 229-243, and the rest of the script run
SaveFX ==
    /\ ~raised
    /\ \E inputs \in [Range(currency_options) \ {fx_base} -> RateVals] :
           LET rate_inputs == [c \in Range(currency_options) |->
                                  IF c = fx_base THEN 1 ELSE inputs[c]]
           IN  fx_rates' = [c \in DOMAIN fx_rates \cup DOMAIN rate_inputs |->
                               IF c \in DOMAIN rate_inputs
                               THEN rate_inputs[c] ELSE fx_rates[c]]
    /\ df_conv' = Convert(df_all, fx_rates')
    /\ raised' = Raises(df_all, fx_rates')
    /\ UNCHANGED <<pc, all_names, net, fx_base, df_all, settleVars, netVars>>

NextFx == ChangeBase \/ SaveFX

SpecFx == InitFx /\ [][NextFx]_vars

---------------------------------------------------------------------------
(* Properties of build_settlement_matrix *)

Done == pc = "done"

Roster == Range(all_names)

\* sum of row p: what p pays out
RowSum(p) == SumSeq([i \in 1..Len(all_names) |-> settle_df[p][all_names[i]]])

\* sum of column p: what p receives
ColSum(p) == SumSeq([i \in 1..Len(all_names) |-> settle_df[all_names[i]][p]])

NetSum == SumSeq([i \in 1..Len(all_names) |-> net[all_names[i]]])

CreditorSet == {n \in Roster : net[n] > 0}

DebtorSet == {n \in Roster : net[n] < 0}

NonZeroCells == Cardinality({rc \in Roster \X Roster : settle_df[rc[1]][rc[2]] # 0})

Pos(n) == CHOOSE i \in 1..Len(all_names) : all_names[i] = n

NoRepeat(s) == \A i, j \in 1..Len(s) : s[i] = s[j] => i = j

\* C1 as stated: for every net map and every participant p of the returned
\* matrix, (row sum of p) - (column sum of p) equals net[p] within Epsilon.
C1_RowMinusColIsNet ==
    Done => \A p \in Roster : Abs(RowSum(p) - ColSum(p) - net[p]) <= Epsilon

\* C1 amended: for every net map that sums to zero and every participant p of
\* the returned matrix, (column sum of p) - (row sum of p) differs from net[p]
\* by at most Epsilon times the number of participants.
C1_ColMinusRowIsNet ==
    (Done /\ NetSum = 0) =>
        \A p \in Roster :
            Abs(ColSum(p) - RowSum(p) - net[p]) <= Epsilon * Len(all_names)

\* C1 witness: a finished zero-sum settlement with a debtor that pays out, for
\* whom row - column is the opposite of the net.
C1_Witness ==
    /\ Done
    /\ NetSum = 0
    /\ \E p \in Roster : net[p] < -Epsilon /\ RowSum(p) = -net[p] /\ ColSum(p) = 0

\* C2 as stated: for a net map that sums to zero, executing the transfers
\* brings every position to exactly zero, net[p] + row - column = 0, and
\* the loop leaves no residual on anyone.
C2_SettlesToZero ==
    (Done /\ NetSum = 0) =>
        \A p \in Roster : net[p] + RowSum(p) - ColSum(p) = 0 /\ temp[p] = 0

\* C2 amended: for a net map that sums to zero, executing the transfers leaves
\* every participant the residual the loop ended with, net[p] + row - column
\* = temp[p]; a creditor's residual is >= 0, a debtor's <= 0, and its size is
\* at most Epsilon times the number of participants.
C2_SettlesWithinTolerance ==
    (Done /\ NetSum = 0) =>
        \A p \in Roster :
            /\ net[p] + RowSum(p) - ColSum(p) = temp[p]
            /\ Abs(temp[p]) <= Epsilon * Len(all_names)
            /\ net[p] > 0 => temp[p] >= 0
            /\ net[p] < 0 => temp[p] <= 0
            /\ net[p] = 0 => temp[p] = 0

\* C2 witness: a finished zero-sum settlement with at least two transfers that
\* left nothing on anyone.
C2_Witness ==
    /\ Done
    /\ NetSum = 0
    /\ NonZeroCells >= 2
    /\ \A p \in Roster : temp[p] = 0

\* C5 as stated: the number of non-zero cells is at most
\* |creditors| + |debtors| - 1, for every input.
C5_TransferCount ==
    Done => NonZeroCells <= Cardinality(CreditorSet) + Cardinality(DebtorSet) - 1

\* C5 amended: the number of non-zero cells is at most
\* |creditors| + |debtors| - 1 when there is a creditor or a debtor, and is
\* zero when there is neither.
C5_TransferCountOrNone ==
    Done => NonZeroCells <=
                Max(0, Cardinality(CreditorSet) + Cardinality(DebtorSet) - 1)

\* C5 witness: a finished settlement of two creditors and two debtors that
\* needed all three transfers.
C5_Witness ==
    /\ Done
    /\ Cardinality(CreditorSet) = 2
    /\ Cardinality(DebtorSet) = 2
    /\ NonZeroCells = 3

\* C6: debtors are matched to creditors in roster order.  The first pair is
\* (first debtor, first creditor) of the roster; while the loop runs every
\* debtor before the current one is drained (within Epsilon); if d pays c, no
\* debtor before d in the roster pays a creditor after c; and net = {A: 50,
\* B: -20, C: -30} with roster [A, B, C] gives exactly B->A 20, C->A 30.
C6_RosterOrder ==
    /\ visited # <<>> =>
           /\ visited[1][1] \in DebtorSet
           /\ visited[1][2] \in CreditorSet
           /\ \A n \in DebtorSet : Pos(visited[1][1]) <= Pos(n)
           /\ \A n \in CreditorSet : Pos(visited[1][2]) <= Pos(n)
    /\ \A k \in 1..Len(visited) : \A n \in DebtorSet :
           Pos(n) < Pos(visited[k][1]) => temp[n] >= -Epsilon
    /\ Done =>
           \A d, c \in Roster :
               settle_df[d][c] # 0 =>
                   \A d2, c2 \in Roster :
                       settle_df[d2][c2] # 0 =>
                           ~(Pos(d2) < Pos(d) /\ Pos(c2) > Pos(c))
    /\ (Done /\ all_names = <<"A", "B", "C">> /\ net = ScenarioD) =>
           \A r, c \in Roster :
               settle_df[r][c] = IF r = "B" /\ c = "A" THEN 20
                                 ELSE IF r = "C" /\ c = "A" THEN 30
                                 ELSE 0

\* C6 witness: a finished settlement in which a later debtor pays a later
\* creditor than an earlier debtor does.
C6_Witness ==
    /\ Done
    /\ \E d, c, d2, c2 \in Roster :
           /\ Pos(d2) < Pos(d)
           /\ Pos(c2) < Pos(c)
           /\ settle_df[d][c] # 0
           /\ settle_df[d2][c2] # 0
           /\ settle_df[d][c2] # 0

\* C9: every cell is >= 0, a cell [r][c] is non-zero only if net[r] < 0 and
\* net[c] > 0 (so the diagonal is zero), and with no creditor or no debtor the
\* call returns the all-zero matrix.
C9_CellsDebtorToCreditor ==
    /\ pc # "call" =>
           \A r, c \in Roster :
               /\ settle_df[r][c] >= 0
               /\ settle_df[r][c] # 0 => (net[r] < 0 /\ net[c] > 0)
               /\ r = c => settle_df[r][c] = 0
    /\ (pc = "loop" /\ (CreditorSet = {} \/ DebtorSet = {})) =>
           /\ ENABLED Return
           /\ settle_df = ZeroMatrix(all_names)
    /\ (Done /\ (CreditorSet = {} \/ DebtorSet = {})) =>
           /\ iters = 0
           /\ settle_df = [r \in Roster |-> [c \in Roster |-> 0]]

\* C9 witness: a finished settlement with a non-zero cell beside names whose
\* net is zero.
C9_Witness ==
    /\ Done
    /\ NonZeroCells >= 1
    /\ \E p \in Roster : net[p] = 0

\* C10 as stated: the loop terminates, every iteration advances ci or di, it
\* runs at most |creditors| + |debtors| - 1 iterations, no (debtor, creditor)
\* pair is visited twice, and the assigned matrix equals the accumulated one.
C10_LoopBound ==
    /\ ~stalled
    /\ pc # "call" =>
           iters <= Cardinality(CreditorSet) + Cardinality(DebtorSet) - 1
    /\ NoRepeat(visited)
    /\ settle_df = acc
    /\ Done \/ ENABLED NextSettle

\* C10 amended: as stated, with the bound on the iterations being
\* |creditors| + |debtors| - 1 when there is a creditor or a debtor and zero
\* when there is neither.
C10_LoopBoundOrNone ==
    /\ ~stalled
    /\ pc # "call" =>
           iters <= Max(0, Cardinality(CreditorSet) + Cardinality(DebtorSet) - 1)
    /\ NoRepeat(visited)
    /\ settle_df = acc
    /\ Done \/ ENABLED NextSettle

\* C10 witness: a finished call whose loop ran the full |creditors| +
\* |debtors| - 1 iterations, one of them without recording a transfer.
C10_Witness ==
    /\ Done
    /\ iters = Cardinality(CreditorSet) + Cardinality(DebtorSet) - 1
    /\ iters >= 3
    /\ NonZeroCells < iters

---------------------------------------------------------------------------
(* Properties of compute_net *)

Last(s) == s[Len(s)]

Tokens(row) == _split_parts(row.Participants)

\* the payer and every listed participant of the row is on the roster
InRoster(row) ==
    /\ row.Payer \in Roster
    /\ \A t \in Range(Tokens(row)) : \E n \in Roster : t = <<n>>

\* the payer and every listed participant of the row is off the roster
OffRoster(row) ==
    /\ row.Payer \notin Roster
    /\ \A t \in Range(Tokens(row)) : \A n \in Roster : t # <<n>>

\* C3 as stated: when every payer and every listed participant is on the
\* roster, the nets returned by compute_net sum to zero, also for rows whose
\* participants field yields no token or repeats a name.
C3_Conservation ==
    (Done /\ \A i \in 1..Len(records) : InRoster(records[i])) => NetSum = 0

\* C4 as stated: the share of a row is its amount divided by the number of
\* distinct listed participants, a roster member on the list is charged exactly
\* one share, and the shares charged for a row whose participants are all on
\* the roster add up to its amount.
C4_DistinctSplit ==
    Done =>
        \A i \in 1..Len(records) :
            LET row == records[i]
                listed == Range(Tokens(row))
            IN  listed # {} =>
                    /\ Share(row) * Cardinality(listed) = row.Amount
                    /\ \A n \in Roster :
                           Charged(row, n) =
                               IF <<n>> \in listed THEN Share(row) ELSE 0
                    /\ (\A t \in listed : \E n \in Roster : t = <<n>>) =>
                           SumSeq([k \in 1..Len(all_names) |->
                                      Charged(row, all_names[k])]) = row.Amount

\* C7: a row whose payer and listed participants are all off the roster, added
\* to the ledger, leaves the net of every roster member as it was, and the
\* result of compute_net has exactly the roster names as keys.
C7_OffRosterRowIgnored ==
    Done =>
        /\ DOMAIN net = Roster
        /\ (records # <<>> /\ OffRoster(Last(records))) => net = prev_net

\* C7 witness: compute_net has run on a ledger whose last row is off the
\* roster and lists a participant, after rows that left non-zero nets.
C7_Witness ==
    /\ Done
    /\ Len(records) >= 2
    /\ OffRoster(Last(records))
    /\ Tokens(Last(records)) # <<>>
    /\ \E n \in Roster : net[n] # 0

---------------------------------------------------------------------------
(* Properties of the Converted tab *)

KeptRows == {df_conv[k].Row : k \in 1..Len(df_conv)}

\* C8: after any sequence of base changes and Save FX, a row is dropped from
\* the converted ledger exactly when the rate stored for its currency is None
\* or zero; every other row is kept, once, with its amount multiplied by that
\* rate; and no exception is raised.
C8_DroppedIffNoRate ==
    /\ ~raised
    /\ KeptRows \subseteq 1..Len(df_all)
    /\ \A i \in 1..Len(df_all) :
           LET r == IF df_all[i].Currency \in DOMAIN fx_rates
                    THEN fx_rates[df_all[i].Currency] ELSE None
           IN  /\ i \notin KeptRows <=> (r = None \/ r = 0)
               /\ i \in KeptRows =>
                      /\ Cardinality({k \in 1..Len(df_conv) :
                                         df_conv[k].Row = i}) = 1
                      /\ \A k \in 1..Len(df_conv) :
                             df_conv[k].Row = i =>
                                 df_conv[k].Amount = df_all[i].Amount * r

\* C8 witness: the base was changed and rates were saved, and the ledger has a
\* row dropped for a zero rate and a row kept at twice its amount.
C8_Witness ==
    /\ fx_base # currency_options[1]
    /\ \E i, k \in 1..Len(df_all) :
           /\ df_all[i].Currency \in DOMAIN fx_rates
           /\ fx_rates[df_all[i].Currency] = 0
           /\ i \notin KeptRows
           /\ df_all[k].Amount > 0
           /\ \E m \in 1..Len(df_conv) :
                  df_conv[m].Row = k /\ df_conv[m].Amount = 2 * df_all[k].Amount

=============================================================================
